---- MODULE Spec2Model ----
(***************************************************************************)
(* Model of the sustainability regulation tracker:                         *)
(*   sustainability_agent.py          (basic 5-column store)               *)
(*   sustainability_agent_enhanced.py (extended 12-column store)           *)
(* The store is a SQLite table `updates` with UNIQUE(source, title, link)  *)
(* and NOT NULL on source, title, link, date, summary.  A table is the     *)
(* sequence of its rows in rowid order.  `html` is the interactive         *)
(* dashboard file generate_interactive_dashboard.py writes, `browser` the  *)
(* browser showing it, with the localStorage its script keeps.             *)
(***************************************************************************)
EXTENDS Integers, Sequences, FiniteSets, TLC

VARIABLES schema, dbExists, db, last, html, browser

vars == <<schema, dbExists, db, last, html, browser>>

\* ------------------------------------------------------------------ bounds
\* longest batch handed to store_updates directly
MaxBatch == 3
\* how many entries of SOURCES are registered
NumSources == 2

\* ------------------------------------------------------------- data model
\* Python None / SQL NULL
Null == "<NULL>"

\* a value of a type sqlite3 cannot bind (a list, a dict, an object)
Unbindable == "<unsupported type>"

\* column value of a column the basic schema does not have
NoColumn == "<no column>"

\* UpdateItem: the dataclass fields
UpdateItem(source, title, link, date, summary, deadline, impact) ==
    [source |-> source, title |-> title, link |-> link, date |-> date,
     summary |-> summary, first_published |-> "", last_updated |-> "",
     compliance_deadline |-> deadline, significant_changes |-> "",
     impact_level |-> impact, affected_sectors |-> "", jurisdiction |-> ""]

\* a record, and a second version of it with the same natural key
ItemA == UpdateItem("EU", "X", "http://a", "2025-01-01", "s", "", "High")
ItemA2 == UpdateItem("EU", "X", "http://a", "2025-02-01", "t", "2026-06-30", "Low")
\* differs from ItemA in the link only
ItemB == UpdateItem("EU", "X", "http://b", "2025-01-01", "s", "", "Medium")
\* another source; its optional fields are None
ItemC == UpdateItem("UK", "Y", "http://a", "2025-02-01", "s", Null, Null)
\* malformed: a key field is None
ItemNoTitle == UpdateItem("EU", Null, "http://a", "2025-01-01", "s", "", "Medium")
\* malformed: a required non-key field is None
ItemNoSummary == UpdateItem("UK", "Z", "http://a", "2025-01-01", Null, "", "Medium")

\* its summary is not text but a list
ItemBadType == UpdateItem("UK", "W", "http://a", "2025-01-01", Unbindable, "", "Medium")

Items == {ItemA, ItemA2, ItemB, ItemC, ItemNoTitle, ItemNoSummary, ItemBadType}

RequiredFields == {"source", "title", "link", "date", "summary"}

ExtendedFields == {"first_published", "last_updated", "compliance_deadline",
                   "significant_changes", "impact_level", "affected_sectors",
                   "jurisdiction"}

\* sequences over S of length at most n
SeqUpTo(S, n) == UNION {[1..k -> S] : k \in 0..n}

\* the natural key: UNIQUE(source, title, link)
NaturalKey(r) == <<r.source, r.title, r.link>>

\* the row an INSERT writes for an item: the basic statement binds five
\* columns, the enhanced statement all twelve
InsertedRow(sch, item) ==
    [f \in DOMAIN item |->
        IF f \in ExtendedFields /\ sch = "basic" THEN NoColumn ELSE item[f]]

\* NotNullOk with NOT NULL declared on the key columns only
NotNullOkKeyOnly(row) == \A f \in {"source", "title", "link"} : row[f] # Null

\* NOT NULL constraint of the five required columns
NotNullOk(row) == \A f \in RequiredFields : row[f] # Null

\* UniqueOk comparing with the most recent row only
UniqueOkLastRow(table, row) ==
    table = << >> \/ NaturalKey(table[Len(table)]) # NaturalKey(row)

\* UNIQUE(source, title, link) against the rows of the table
UniqueOk(table, row) ==
    \A i \in 1..Len(table) : NaturalKey(table[i]) # NaturalKey(row)

\* ------------------------------------------------------------ store_updates
\* the columns an INSERT binds a parameter to
BoundFields(sch) ==
    IF sch = "basic" THEN RequiredFields ELSE RequiredFields \cup ExtendedFields

\* sqlite3 can bind None, str, int, float and bytes; any other value makes
\* cur.execute raise ProgrammingError before the statement runs
BindOk(sch, item) == \A f \in BoundFields(sch) : item[f] # Unbindable

\* StoreOne on a table without the UNIQUE constraint
StoreOneNoUnique(sch, acc, item) ==
    LET row == InsertedRow(sch, item) IN
    IF ~BindOk(sch, item)
      THEN [acc EXCEPT !.trace = Append(@, "ProgrammingError"), !.raised = TRUE]
    ELSE IF ~NotNullOk(row)
      THEN [acc EXCEPT !.trace = Append(@, "IntegrityError: NOT NULL")]
    ELSE [acc EXCEPT !.table = Append(@, row),
                     !.new_items = Append(@, item),
                     !.trace = Append(@, "inserted")]

\* StoreOne with new_items.append(item) outside the try block: a rejected
\* item is reported as new
StoreOneReportsRejected(sch, acc, item) ==
    LET row == InsertedRow(sch, item) IN
    IF ~BindOk(sch, item)
      THEN [acc EXCEPT !.trace = Append(@, "ProgrammingError"), !.raised = TRUE]
    ELSE IF ~NotNullOk(row)
      THEN [acc EXCEPT !.trace = Append(@, "IntegrityError: NOT NULL")]
    ELSE IF ~UniqueOk(acc.table, row)
      THEN [acc EXCEPT !.trace = Append(@, "IntegrityError: UNIQUE"),
                       !.new_items = Append(@, item)]
    ELSE [acc EXCEPT !.table = Append(@, row),
                     !.new_items = Append(@, item),
                     !.trace = Append(@, "inserted")]

\* StoreOne with INSERT OR REPLACE: a row with the same key is overwritten
StoreOneReplace(sch, acc, item) ==
    LET row == InsertedRow(sch, item) IN
    IF ~BindOk(sch, item)
      THEN [acc EXCEPT !.trace = Append(@, "ProgrammingError"), !.raised = TRUE]
    ELSE IF ~NotNullOk(row)
      THEN [acc EXCEPT !.trace = Append(@, "IntegrityError: NOT NULL")]
    ELSE IF ~UniqueOk(acc.table, row)
      THEN [acc EXCEPT
              !.table = [m \in 1..Len(@) |->
                           IF NaturalKey(@[m]) = NaturalKey(row) THEN row ELSE @[m]],
              !.trace = Append(@, "IntegrityError: UNIQUE")]
    ELSE [acc EXCEPT !.table = Append(@, row),
                     !.new_items = Append(@, item),
                     !.trace = Append(@, "inserted")]

\* one pass of the loop body for `item`.  The INSERT raises
\* sqlite3.IntegrityError (NOT NULL or UNIQUE), which the except clause
\* swallows; or it raises another exception, which leaves store_updates; or it
\* appends the row, and the row is committed and item appended to new_items
StoreOne(sch, acc, item) ==
    LET row == InsertedRow(sch, item) IN
    IF ~BindOk(sch, item)
      THEN [acc EXCEPT !.trace = Append(@, "ProgrammingError"), !.raised = TRUE]
    ELSE IF ~NotNullOk(row)
      THEN [acc EXCEPT !.trace = Append(@, "IntegrityError: NOT NULL")]
    ELSE IF ~UniqueOk(acc.table, row)
      THEN [acc EXCEPT !.trace = Append(@, "IntegrityError: UNIQUE")]
    ELSE [acc EXCEPT !.table = Append(@, row),
                     !.new_items = Append(@, item),
                     !.trace = Append(@, "inserted")]

RECURSIVE StoreLoopBreak(_, _, _)
\* StoreLoop with `break` for `continue` in the except clause
StoreLoopBreak(sch, acc, items) ==
    IF items = << >> \/ acc.raised THEN acc
    ELSE LET nxt == StoreOne(sch, acc, Head(items)) IN
         IF nxt.trace[Len(nxt.trace)] \in
                {"IntegrityError: UNIQUE", "IntegrityError: NOT NULL"}
           THEN nxt
           ELSE StoreLoopBreak(sch, nxt, Tail(items))

RECURSIVE StoreLoop(_, _, _)
\* for item in items: ...   (acc carries the table, new_items and, per
\* processed item, what its INSERT did; an exception that is not caught ends
\* the loop)
StoreLoop(sch, acc, items) ==
    IF items = << >> \/ acc.raised THEN acc
    ELSE StoreLoop(sch, StoreOne(sch, acc, Head(items)), Tail(items))

\* store_updates(conn, items) on a table: the table afterwards, and new_items
\* (returned unless raised)
store_updates(sch, table, items) ==
    StoreLoop(sch, [table |-> table, new_items |-> << >>, trace |-> << >>,
                    raised |-> FALSE], items)

\* ----------------------------------------------------------- gather_updates
\* SOURCES, in registration (dict insertion) order
SOURCES == <<"EU", "IFRS", "UK", "Japan", "India", "SBTi">>

\* the registered producers of this model
Registered == SubSeq(SOURCES, 1, NumSources)

\* one producer call: it raises, or returns a list of items
ProducerRaises == [raised |-> TRUE, items |-> << >>]

ProducerReturns(l) == [raised |-> FALSE, items |-> l]

ProducerLists ==
    {<< >>, <<ItemA>>, <<ItemA2, ItemB>>, <<ItemC>>, <<ItemB, ItemNoSummary>>}

ProducerResults == {ProducerRaises} \cup {ProducerReturns(l) : l \in ProducerLists}

RECURSIVE GatherLoopDedup(_, _, _)
\* GatherLoop dropping the items it has collected already
GatherLoopDedup(collected, k, results) ==
    IF k > Len(Registered) THEN collected
    ELSE GatherLoopDedup(
            IF results[k].raised THEN collected
            ELSE collected \o SelectSeq(results[k].items,
                     LAMBDA it : \A m \in 1..Len(collected) : collected[m] # it),
            k + 1, results)

RECURSIVE GatherLoopAbort(_, _, _)
\* GatherLoop with the try around the whole loop: the first failing producer
\* ends the collection
GatherLoopAbort(collected, k, results) ==
    IF k > Len(Registered) \/ results[k].raised THEN collected
    ELSE GatherLoopAbort(collected \o results[k].items, k + 1, results)

RECURSIVE GatherLoopPrepend(_, _, _)
\* GatherLoop putting each producer's items in front of those collected
GatherLoopPrepend(collected, k, results) ==
    IF k > Len(Registered) THEN collected
    ELSE GatherLoopPrepend(IF results[k].raised THEN collected
                           ELSE results[k].items \o collected,
                           k + 1, results)

RECURSIVE GatherLoop(_, _, _)
\* for name, parser in SOURCES.items():   (k: position in SOURCES)
\*     try: collected.extend(parser())
\*     except Exception: continue
GatherLoop(collected, k, results) ==
    IF k > Len(Registered) THEN collected
    ELSE GatherLoop(IF results[k].raised THEN collected
                    ELSE collected \o results[k].items,
                    k + 1, results)

\* gather_updates() when the k-th registered producer behaves as results[k]
gather_updates(results) == GatherLoop(<< >>, 1, results)

\* ------------------------------------------------------------ the dashboards
\* BINARY collation of the TEXT values in use; NULL sorts first
TextOrder ==
    <<Null, "", "2025-01-01", "2025-02-01", "2025-03-01", "2026-06-30",
      "2027-01-15", "EU", "UK">>

TextRank(v) == CHOOSE i \in 1..Len(TextOrder) : TextOrder[i] = v

\* ORDER BY date DESC                       (generate_dashboard)
\* ORDER BY compliance_deadline, date DESC  (generate_professional_dashboard)
\* a must come strictly before b
SortsBefore(sch, a, b) ==
    IF sch = "basic" THEN TextRank(a.date) > TextRank(b.date)
    ELSE \/ TextRank(a.compliance_deadline) < TextRank(b.compliance_deadline)
         \/ /\ a.compliance_deadline = b.compliance_deadline
            /\ TextRank(a.date) > TextRank(b.date)

\* the row orders the SELECT may return: rows that compare equal come in an
\* order SQL leaves open
QueryOrders(sch, table) ==
    LET n == Len(table) IN
    {p \in [1..n -> 1..n] :
        /\ \A i, j \in 1..n : i # j => p[i] # p[j]
        /\ \A i, j \in 1..n : i < j => ~SortsBefore(sch, table[p[j]], table[p[i]])}

FetchAll(table, p) == [i \in 1..Len(table) |-> table[p[i]]]

\* a piece of emitted markup: its tag, the source it names, the row it shows
Markup(tag, source, rows) == [tag |-> tag, source |-> source, row |-> rows]

RECURSIVE DashboardRowsUnderHeading(_, _)
\* DashboardRows with the row appended inside the `if source !=
\* current_source` block: only the first row of a group is shown
DashboardRowsUnderHeading(rows, current_source) ==
    IF rows = << >> THEN << >>
    ELSE LET r == Head(rows) IN
         (IF r.source # current_source
            THEN (IF current_source # Null
                    THEN <<Markup("/table", current_source, << >>)>> ELSE << >>)
                 \o <<Markup("h2", r.source, << >>), Markup("table", r.source, << >>),
                      Markup("tr", r.source, <<r>>)>>
            ELSE << >>)
         \o DashboardRowsUnderHeading(Tail(rows), r.source)

RECURSIVE DashboardRows(_, _)
\* generate_dashboard: the loop over rows, with current_source
DashboardRows(rows, current_source) ==
    IF rows = << >> THEN << >>
    ELSE LET r == Head(rows) IN
         (IF r.source # current_source
            THEN (IF current_source # Null
                    THEN <<Markup("/table", current_source, << >>)>> ELSE << >>)
                 \o <<Markup("h2", r.source, << >>), Markup("table", r.source, << >>)>>
            ELSE << >>)
         \o <<Markup("tr", r.source, <<r>>)>>
         \o DashboardRows(Tail(rows), r.source)

\* generate_dashboard(conn, html_path): the body of the page written
generate_dashboard(rows) ==
    [written |-> TRUE,
     page |-> DashboardRows(rows, Null)
              \o (IF rows # << >> THEN <<Markup("/table", Null, << >>)>> ELSE << >>)]

\* upcoming = [r for r in rows if r[7] and r[7] != "Voluntary commitment ..."]
Upcoming(rows) ==
    SelectSeq(rows, LAMBDA r : r.compliance_deadline \notin {Null, ""})

RECURSIVE ProfessionalCards(_, _)
\* generate_professional_dashboard: the loop over rows, with current_source
ProfessionalCards(rows, current_source) ==
    IF rows = << >> THEN << >>
    ELSE LET r == Head(rows) IN
         (IF r.source # current_source
            THEN <<Markup("h3", r.source, << >>)>> ELSE << >>)
         \o <<Markup("update-card", r.source, <<r>>)>>
         \o ProfessionalCards(Tail(rows), r.source)

\* impact_level.lower() raises AttributeError on None: nothing is written
ProfessionalRaises(rows) ==
    \E i \in 1..Len(rows) : rows[i].impact_level = Null

\* generate_professional_dashboard(conn, html_path)
generate_professional_dashboard(rows) ==
    IF ProfessionalRaises(rows) THEN [written |-> FALSE, page |-> << >>]
    ELSE [written |-> TRUE,
          page |-> [i \in 1..Len(Upcoming(rows)) |->
                       Markup("deadline-card", Upcoming(rows)[i].source,
                              <<Upcoming(rows)[i]>>)]
                   \o ProfessionalCards(rows, Null)]

\* the dashboard run_daily_task regenerates
Dashboard(sch, rows) ==
    IF sch = "basic" THEN generate_dashboard(rows)
    ELSE generate_professional_dashboard(rows)

\* sustainability_dashboard_interactive.html: not written yet, or the
\* regulations embedded in its script
NoFile ==
    [written |-> FALSE, regulations |-> << >>,
     cards |-> [all |-> 0, high |-> 0, medium |-> 0, low |-> 0]]

\* the browser before the page is opened: the regulations and stat cards of
\* the page it shows, localStorage (without the item 'complianceData'), the compliance grid and the modal on display, and
\* the handler that ran last
NoPage ==
    [open |-> FALSE, regulations |-> << >>, cards |-> NoFile.cards,
     complianceData |-> [saved |-> FALSE, data |-> << >>],
     grid |-> << >>, modal |-> << >>, handler |-> "none", threw |-> FALSE,
     filter |-> "none"]

\* ------------------------------------------------------------ state machine
\* `last` holds the call in progress in the running process: its inputs, the
\* table it found, what it returned or wrote.  The program is sequential, one
\* process invocation after the other: a call starts when no other is open
NoCall ==
    [op |-> "none", results |-> << >>, items |-> << >>, pre |-> << >>,
     ret |-> << >>, trace |-> << >>, raised |-> FALSE,
     written |-> FALSE, page |-> << >>, emailed |-> FALSE, digest |-> << >>]

\* no call is open
Idle == last.op = "none"

Init ==
    /\ schema \in {"basic", "enhanced"}
    /\ dbExists = FALSE
    /\ db = << >>
    /\ last = NoCall
    /\ html = NoFile
    /\ browser = NoPage

\* DROP TABLE IF EXISTS updates; CREATE TABLE updates (...)
CreateTableAfterDrop(exists, table) == << >>

\* CREATE TABLE IF NOT EXISTS updates (...): a new file gets an empty table,
\* an existing table is left alone
CreateTableIfNotExists(exists, table) == IF exists THEN table ELSE << >>

\* initialise_db(db_path): sqlite3.connect creates the file, then the table
\* is created if it is not there
InitialiseDb ==
    /\ Idle
    /\ dbExists' = TRUE
    /\ db' = CreateTableIfNotExists(dbExists, db)
    /\ last' = [NoCall EXCEPT !.op = "initialise_db", !.pre = db]
    /\ UNCHANGED <<schema, html, browser>>

\* store_updates(conn, items), conn coming from initialise_db
StoreUpdates ==
    /\ Idle
    /\ \E items \in SeqUpTo(Items, MaxBatch) :
           LET r == store_updates(schema, db, items) IN
           /\ dbExists
           /\ db' = r.table
           /\ last' = [NoCall EXCEPT !.op = "store_updates", !.items = items,
                                     !.pre = db, !.trace = r.trace,
                                     !.raised = r.raised,
                                     !.ret = IF r.raised THEN << >> ELSE r.new_items]
           /\ UNCHANGED <<schema, dbExists, html, browser>>

\* gather_updates()
GatherUpdates ==
    /\ Idle
    /\ \E results \in [1..NumSources -> ProducerResults] :
           /\ last' = [NoCall EXCEPT !.op = "gather_updates", !.results = results,
                                     !.pre = db, !.ret = gather_updates(results)]
           /\ UNCHANGED <<schema, dbExists, db, html, browser>>

\* run_daily_task(db_path, dashboard_path): initialise_db, gather_updates,
\* store_updates, then the dashboard; the compose_email / send_email lines
\* are commented out, so nothing is handed to the notifier
RunDailyTask ==
    /\ Idle
    /\ \E results \in [1..NumSources -> ProducerResults] :
        LET items == gather_updates(results)
            r == store_updates(schema, db, items)
        IN  \E p \in QueryOrders(schema, r.table) :
            LET d == IF r.raised THEN [written |-> FALSE, page |-> << >>]
                     ELSE Dashboard(schema, FetchAll(r.table, p))
            IN
            /\ dbExists' = TRUE
            /\ db' = r.table
            /\ last' = [NoCall EXCEPT !.op = "run_daily_task",
                                      !.results = results, !.items = items,
                                      !.pre = db, !.trace = r.trace,
                                      !.ret = IF r.raised THEN << >> ELSE r.new_items,
                                      !.raised = r.raised \/ ~d.written,
                                      !.written = d.written, !.page = d.page]
            /\ UNCHANGED <<schema, html, browser>>

\* the process ends: the caller's locals (items, new_items, conn) are gone,
\* the database file stays
Exit ==
    /\ ~Idle
    /\ last' = NoCall
    /\ UNCHANGED <<schema, dbExists, db, html, browser>>

Next == InitialiseDb \/ StoreUpdates \/ GatherUpdates \/ RunDailyTask \/ Exit

Spec == Init /\ [][Next]_vars

\* ---------------------------------------------------------------- properties
\* the calls that run the store_updates loop
StoreCall == last.op \in {"store_updates", "run_daily_task"}

KeysOf(table) == {NaturalKey(table[i]) : i \in 1..Len(table)}

RowsOf(table) == {table[i] : i \in 1..Len(table)}

\* every required field of the item is text
WellFormed(item) ==
    \A f \in RequiredFields : item[f] \notin {Null, Unbindable}

\* a required field of the item is missing (None)
MissingField(item) == \E f \in RequiredFields : item[f] = Null

\* the positions of the batch holding a record that is new: well formed, its
\* key not stored before the call and not at an earlier position
FreshPositions(pre, items) ==
    {i \in 1..Len(items) :
        /\ WellFormed(items[i])
        /\ NaturalKey(items[i]) \notin KeysOf(pre)
        /\ \A j \in 1..(i - 1) :
              WellFormed(items[j]) => NaturalKey(items[j]) # NaturalKey(items[i])}

\* the k-th smallest element of a set of numbers
KthOf(S, k) == CHOOSE x \in S : Cardinality({y \in S : y < x}) = k - 1

\* the subsequence of items at the positions P, in the order of items
SubsequenceAt(items, P) == [k \in 1..Cardinality(P) |-> items[KthOf(P, k)]]

\* C1: no two stored records share the natural key (source, title, link),
\* after any sequence of initialise_db, store_updates and run_daily_task
\* calls, on the basic and on the extended store
NaturalKeyUnique ==
    \A i, j \in 1..Len(db) :
        i # j => NaturalKey(db[i]) # NaturalKey(db[j])

\* C1 witness: a batch offered a stored key again and a key twice, and the
\* store holds several records
NaturalKeyUniqueWitness ==
    /\ last.op = "store_updates"
    /\ Len(db) >= 2
    /\ \E i \in 1..Len(last.items) : NaturalKey(last.items[i]) \in KeysOf(last.pre)
    /\ \E i, j \in 1..Len(last.items) :
          /\ i < j
          /\ NaturalKey(last.items[i]) = NaturalKey(last.items[j])
          /\ NaturalKey(last.items[i]) \notin KeysOf(last.pre)

\* C2: idempotent ingestion.  A call of store_updates with the sequence
\* `items` on the store that a first call with the same sequence left (started
\* on an empty store, returned normally) returns the empty list and leaves a
\* stored set of the same size
IdempotentIngestion ==
    LET first == store_updates(schema, << >>, last.items) IN
    (StoreCall /\ ~first.raised /\ last.pre = first.table)
        => /\ last.ret = << >>
           /\ ~(last.op = "store_updates" /\ last.raised)
           /\ Len(db) = Len(first.table)

\* C2 witness: the second ingestion of a sequence that stored two records
IdempotentIngestionWitness ==
    /\ last.op = "store_updates"
    /\ Len(last.items) >= 2
    /\ Len(last.pre) >= 2
    /\ last.pre = store_updates(schema, << >>, last.items).table
    /\ last.ret = << >>

\* C3: for a batch of well-formed records, fresh and duplicate, store_updates
\* returns exactly the records at the fresh positions, in input order, and
\* the store afterwards is the store before followed by the rows of exactly
\* the returned records
ReturnsExactlyNew ==
    (StoreCall /\ \A i \in 1..Len(last.items) : WellFormed(last.items[i]))
        => LET P == FreshPositions(last.pre, last.items) IN
           /\ last.ret = SubsequenceAt(last.items, P)
           /\ db = last.pre \o [k \in 1..Len(last.ret) |->
                                   InsertedRow(schema, last.ret[k])]

\* C3 witness: a batch with a fresh record, a duplicate of a stored record,
\* and another fresh record after it
ReturnsExactlyNewWitness ==
    /\ last.op = "store_updates"
    /\ last.pre # << >>
    /\ last.trace = <<"inserted", "IntegrityError: UNIQUE", "inserted">>
    /\ Len(last.ret) = 2

\* what a call gathered: gather_updates returns it, run_daily_task hands it
\* to store_updates
Gathered == IF last.op = "gather_updates" THEN last.ret ELSE last.items

\* C4: two registered producers return the same single record and no other
\* producer returns anything: gather_updates returns both entries,
\* store_updates on an empty store returns exactly one, the first occurrence,
\* and the store then holds exactly one record
SameRecordTwice(a, b) ==
    /\ a < b
    /\ ~last.results[a].raised /\ ~last.results[b].raised
    /\ Len(last.results[a].items) = 1
    /\ last.results[a].items = last.results[b].items
    /\ WellFormed(last.results[a].items[1])
    /\ \A k \in 1..NumSources :
          k \notin {a, b} => last.results[k].raised \/ last.results[k].items = << >>

InBatchDuplicateSuppressed ==
    \A a, b \in 1..NumSources :
        (last.op = "run_daily_task" /\ last.pre = << >> /\ SameRecordTwice(a, b))
            => /\ Gathered = last.results[a].items \o last.results[b].items
               /\ last.ret = <<Gathered[1]>>
               /\ last.trace = <<"inserted", "IntegrityError: UNIQUE">>
               /\ Len(db) = 1
               /\ db[1] = InsertedRow(schema, Gathered[1])

\* C4 witness: the run on an empty store in which two producers returned the
\* same record
InBatchDuplicateSuppressedWitness ==
    /\ last.op = "run_daily_task"
    /\ last.pre = << >>
    /\ \E a, b \in 1..NumSources : SameRecordTwice(a, b)
    /\ Len(Gathered) = 2
    /\ Len(db) = 1

\* C5: an input record that shares its natural key with a stored record: its
\* INSERT fails with the IntegrityError that store_updates swallows, no
\* returned record has its key, the stored record with its key is unchanged
\* and stays the only one, and the loop goes on to the following record
DuplicateOfStored(i) ==
    /\ i \in 1..Len(last.trace)
    /\ BindOk(schema, last.items[i])
    /\ ~MissingField(last.items[i])
    /\ NaturalKey(last.items[i]) \in KeysOf(last.pre)

DuplicateSilentlySkipped ==
    StoreCall =>
        \A i \in 1..Len(last.items) :
            DuplicateOfStored(i)
                => /\ last.trace[i] = "IntegrityError: UNIQUE"
                   /\ \A k \in 1..Len(last.ret) :
                          NaturalKey(last.ret[k]) # NaturalKey(last.items[i])
                   /\ \A m \in 1..Len(last.pre) :
                          NaturalKey(last.pre[m]) = NaturalKey(last.items[i])
                              => db[m] = last.pre[m]
                   /\ Cardinality({m \in 1..Len(db) :
                          NaturalKey(db[m]) = NaturalKey(last.items[i])}) = 1
                   /\ i < Len(last.items) => Len(last.trace) > i
                   /\ \A j \in (i + 1)..Len(last.trace) :
                          j \in FreshPositions(last.pre, last.items)
                              => /\ last.trace[j] = "inserted"
                                 /\ InsertedRow(schema, last.items[j]) \in RowsOf(db)

\* C5 witness: the duplicate of a stored record comes first in the batch and a
\* new record after it is inserted and returned
DuplicateSilentlySkippedWitness ==
    /\ last.op = "store_updates"
    /\ Len(last.items) >= 2
    /\ DuplicateOfStored(1)
    /\ last.trace[Len(last.items)] = "inserted"
    /\ last.ret = <<last.items[Len(last.items)]>>
    /\ ~last.raised

\* C6: the store is append-only: no step removes a stored record or changes
\* a field of it
AppendOnly ==
    [][/\ Len(db') >= Len(db)
       /\ \A i \in 1..Len(db) : db'[i] = db[i]]_vars

\* C6 witness: a batch offered a record with a stored natural key but another
\* date and summary, and the stored record is as it was
AppendOnlyWitness ==
    /\ last.op = "store_updates"
    /\ \E i \in 1..Len(last.items), m \in 1..Len(last.pre) :
          /\ NaturalKey(last.items[i]) = NaturalKey(last.pre[m])
          /\ last.items[i].date # last.pre[m].date
          /\ last.items[i].summary # last.pre[m].summary
          /\ last.trace[i] = "IntegrityError: UNIQUE"
          /\ db[m] = last.pre[m]
    /\ Len(db) > Len(last.pre)

\* C7: a record with a missing required field fails its own insert only: the
\* IntegrityError is swallowed, the record is not stored, the loop goes on,
\* and every other new record, before or after it, is inserted; when no
\* record of the batch has a value of a type sqlite3 cannot bind, the call
\* does not raise and returns exactly the new records
MalformedFailsAlone ==
    StoreCall =>
        \A i \in 1..Len(last.trace) :
            (BindOk(schema, last.items[i]) /\ MissingField(last.items[i]))
                => /\ last.trace[i] = "IntegrityError: NOT NULL"
                   /\ InsertedRow(schema, last.items[i]) \notin RowsOf(db)
                   /\ i < Len(last.items) => Len(last.trace) > i
                   /\ \A j \in 1..Len(last.trace) :
                          j \in FreshPositions(last.pre, last.items)
                              => /\ last.trace[j] = "inserted"
                                 /\ InsertedRow(schema, last.items[j]) \in RowsOf(db)
                   /\ (\A j \in 1..Len(last.items) : BindOk(schema, last.items[j]))
                          => /\ Len(last.trace) = Len(last.items)
                             /\ last.op = "store_updates" => ~last.raised
                             /\ last.ret = SubsequenceAt(last.items,
                                    FreshPositions(last.pre, last.items))

\* C7 witness: a new record, a malformed one, another new record: both new
\* records are returned
MalformedFailsAloneWitness ==
    /\ last.op = "store_updates"
    /\ last.trace = <<"inserted", "IntegrityError: NOT NULL", "inserted">>
    /\ MissingField(last.items[2])
    /\ last.ret = <<last.items[1], last.items[3]>>
    /\ ~last.raised

\* what the producer at position k contributes when a failing producer
\* contributes nothing
Contribution(results, k) ==
    IF results[k].raised THEN << >> ELSE results[k].items

RECURSIVE CombinedOutput(_, _)
\* the contributions of the first k producers, one after the other
CombinedOutput(results, k) ==
    IF k = 0 THEN << >>
    ELSE CombinedOutput(results, k - 1) \o Contribution(results, k)

\* C8: whichever producers raise, gather_updates does not raise and returns
\* the combined output of exactly the producers that did not raise
GracefulDegradation ==
    last.op \in {"gather_updates", "run_daily_task"}
        => /\ Gathered = CombinedOutput(last.results, NumSources)
           /\ last.op = "gather_updates" => ~last.raised

\* C8 witness: a producer raised and a producer registered after it
\* returned records
GracefulDegradationWitness ==
    /\ last.op = "gather_updates"
    /\ \E a, b \in 1..NumSources :
          /\ a < b
          /\ last.results[a].raised
          /\ ~last.results[b].raised
          /\ last.results[b].items # << >>
    /\ last.ret # << >>

\* C9: the digest a run hands to the notifier is the list store_updates
\* returned in that run: a run that inserted new records emails exactly
\* those, and no emailed record was stored before the run
DigestIsNewItems ==
    (last.op = "run_daily_task" /\ ~last.raised)
        => /\ last.ret # << >> => (last.emailed /\ last.digest = last.ret)
           /\ last.emailed =>
                 \A k \in 1..Len(last.digest) :
                     NaturalKey(last.digest[k]) \notin KeysOf(last.pre)

\* the markup of the page that shows stored records, one piece per record
RecordMarkup(page) ==
    SelectSeq(page, LAMBDA m : m.tag \in {"tr", "update-card"})

\* C10: the dashboard a run writes shows every record stored at that time,
\* each once, whether this run or an earlier one inserted it
DashboardShowsAllStored ==
    (last.op = "run_daily_task" /\ last.written)
        => /\ \A i \in 1..Len(db) :
                 Cardinality({k \in 1..Len(RecordMarkup(last.page)) :
                     RecordMarkup(last.page)[k].row = <<db[i]>>}) = 1
           /\ Len(RecordMarkup(last.page)) = Len(db)

\* C10 witness: a run that inserted nothing wrote a dashboard showing the
\* records of earlier runs, two of them of one source
DashboardShowsAllStoredWitness ==
    /\ last.op = "run_daily_task"
    /\ last.written
    /\ last.ret = << >>
    /\ Len(last.pre) >= 2
    /\ \E i, j \in 1..Len(db) : i # j /\ db[i].source = db[j].source
    /\ Len(RecordMarkup(last.page)) = Len(db)

\* ================================================================== notifier
\* os.environ as the notifier reads it at call time: a variable is unset or
\* holds a text
Absent == "<unset>"

RequiredEnv == {"SMTP_HOST", "SMTP_PORT", "SMTP_USER", "SMTP_PASSWORD", "SMTP_TO"}

EnvNames == RequiredEnv \cup {"SMTP_FROM"}

\* texts SMTP_PORT may hold: empty, zero, a usable port, a number that is no
\* TCP port, a word
PortTexts == {"", "0", "587", "70000", "smtp"}

EnvValues(name) ==
    IF name = "SMTP_PORT" THEN {Absent} \cup PortTexts ELSE {Absent, "", "set"}

Environments ==
    {[SMTP_HOST |-> host, SMTP_PORT |-> port, SMTP_USER |-> user,
      SMTP_PASSWORD |-> password, SMTP_TO |-> to, SMTP_FROM |-> from] :
        host \in EnvValues("SMTP_HOST"), port \in EnvValues("SMTP_PORT"),
        user \in EnvValues("SMTP_USER"), password \in EnvValues("SMTP_PASSWORD"),
        to \in EnvValues("SMTP_TO"), from \in EnvValues("SMTP_FROM")}

\* os.environ.get(name, default)
Getenv(env, name, default) == IF env[name] = Absent THEN default ELSE env[name]

\* int(text) accepts a decimal numeral and raises ValueError on anything else
IsNumeral(text) == text \in {"0", "587", "70000"}

int(text) == CASE text = "0" -> 0 [] text = "587" -> 587 [] text = "70000" -> 70000

\* truth value of an environment text: None and "" are false
Truthy(text) == text # Absent /\ text # ""

\* one line of the digest body: its kind and the position in `items` of the
\* record it shows (0 for a line that shows no record)
Line(kind, k) == [line |-> kind, of |-> k]

\* the lines compose_email appends for the k-th item
EntryLines(sch, items, k) ==
    IF sch = "basic"
    THEN <<Line("title", k), Line("summary", k), Line("link", k), Line("blank", 0)>>
    ELSE <<Line("title", k), Line("impact", k)>>
         \o (IF items[k].compliance_deadline \notin {Null, ""}
             THEN <<Line("deadline", k)>> ELSE << >>)
         \o <<Line("summary", k), Line("link", k), Line("blank", 0)>>

RECURSIVE ComposeLoop(_, _, _)
ComposeLoop(sch, items, k) ==
    IF k > Len(items) THEN << >>
    ELSE EntryLines(sch, items, k) \o ComposeLoop(sch, items, k + 1)

\* the statement made when nothing is new
NoUpdatesAlways(items) == <<Line("No new updates were detected today.", 0)>>

\* if not items: body_lines.append("No new updates were detected today.")
NoUpdatesLines(items) ==
    IF items = << >> THEN <<Line("No new updates were detected today.", 0)>>
    ELSE << >>

BodyHeader(sch) ==
    IF sch = "basic" THEN <<Line("heading", 0), Line("blank", 0)>>
    ELSE <<Line("heading", 0), Line("prepared-by", 0), Line("blank", 0),
           Line("heading", 0), Line("blank", 0)>>

BodyFooter(sch) ==
    IF sch = "basic" THEN << >>
    ELSE <<Line("blank", 0), Line("rule", 0), Line("prepared-by", 0),
           Line("role", 0)>>

\* compose_email(items): the message with its headers and body lines
compose_email(sch, items, env) ==
    [from |-> Getenv(env, "SMTP_FROM", "sustainability-agent@example.com"),
     to   |-> Getenv(env, "SMTP_TO", "recipient@example.com"),
     body |-> BodyHeader(sch) \o ComposeLoop(sch, items, 1)
              \o NoUpdatesLines(items) \o BodyFooter(sch)]

\* the SMTP conversation of send_email, in order
TransportSteps == <<"connect", "starttls", "login", "sendmail">>

NoFailure == [step |-> "none", exc |-> "none"]

\* what the network does to one conversation: nothing, or an exception out of
\* one step (OSError from the socket, SMTPException from the server's answer)
Failures ==
    {NoFailure} \cup
    {[step |-> TransportSteps[i], exc |-> x] :
        i \in 1..Len(TransportSteps), x \in {"OSError", "SMTPException"}}

\* a handler that names smtplib.SMTPException
SMTPExceptionCaught(exc) == exc = "SMTPException"

\* except Exception: every exception the conversation can raise derives from it
ExceptionCaught(exc) == exc \in {"OSError", "OverflowError", "SMTPException", "ValueError"}

\* the steps run until the failing one, that one included
StepsUntil(step) ==
    LET k == CHOOSE i \in 0..Len(TransportSteps) :
                 IF step = "none" THEN i = Len(TransportSteps)
                 ELSE i > 0 /\ TransportSteps[i] = step
    IN  SubSeq(TransportSteps, 1, k)

Skipped == "SMTP credentials not fully configured; skipping email send."

\* send_email(message) under environment env and network behaviour fail
send_email(env, message, fail) ==
    LET host == env["SMTP_HOST"]
        portText == Getenv(env, "SMTP_PORT", "0")
        user == env["SMTP_USER"]
        password == env["SMTP_PASSWORD"]
        recipients == env["SMTP_TO"]
        quiet == [steps |-> << >>, failed |-> "none", outbox |-> << >>,
                  raised |-> FALSE, exc |-> "none", log |-> ""]
    IN
    IF ~IsNumeral(portText)
    THEN [quiet EXCEPT !.raised = TRUE, !.exc = "ValueError"]
    ELSE IF ~(Truthy(host) /\ int(portText) # 0 /\ Truthy(user)
              /\ Truthy(password) /\ Truthy(recipients))
    THEN [quiet EXCEPT !.log = Skipped]
    ELSE LET f == IF int(portText) > 65535
                  THEN [step |-> "connect", exc |-> "OverflowError"] ELSE fail
         IN  IF f.step = "none"
             THEN [quiet EXCEPT !.steps = TransportSteps, !.outbox = <<message>>,
                                !.log = "Sent email"]
             ELSE IF ExceptionCaught(f.exc)
             THEN [quiet EXCEPT !.steps = StepsUntil(f.step),
                                !.failed = f.step,
                                !.log = "Failed to send email"]
             ELSE [quiet EXCEPT !.steps = StepsUntil(f.step),
                                !.failed = f.step, !.raised = TRUE,
                                !.exc = f.exc]

\* compose_email(items) called on a list of update items
ComposeEmail ==
    /\ Idle
    /\ \E items \in SeqUpTo(Items, MaxBatch), from \in EnvValues("SMTP_FROM"),
          to \in EnvValues("SMTP_TO") :
           LET env == [SMTP_HOST |-> Absent, SMTP_PORT |-> Absent,
                       SMTP_USER |-> Absent, SMTP_PASSWORD |-> Absent,
                       SMTP_TO |-> to, SMTP_FROM |-> from]
           IN
           /\ last' = [op |-> "compose_email", items |-> items, env |-> env,
                       message |-> compose_email(schema, items, env),
                       raised |-> FALSE]
           /\ UNCHANGED <<schema, dbExists, db, html, browser>>

\* send_email(msg) called on a composed digest
SendEmail ==
    /\ Idle
    /\ \E env \in Environments, fail \in Failures, items \in {<< >>, <<ItemA>>} :
           LET message == compose_email(schema, items, env)
               r == send_email(env, message, fail)
           IN
           /\ last' = [op |-> "send_email", env |-> env, fail |-> fail,
                       message |-> message, steps |-> r.steps,
                       failed |-> r.failed,
                       outbox |-> r.outbox, raised |-> r.raised, exc |-> r.exc,
                       log |-> r.log]
           /\ UNCHANGED <<schema, dbExists, db, html, browser>>

NextMail == ComposeEmail \/ SendEmail \/ Exit

SpecMail == Init /\ [][NextMail]_vars

\* a send_email call has run
SendCall == last.op = "send_email"

\* C11: when any of SMTP_HOST, SMTP_PORT, SMTP_USER, SMTP_PASSWORD, SMTP_TO is
\* absent from the environment, send_email opens no connection, sends nothing
\* and returns without raising
MissingCredentialsSkip ==
    (SendCall /\ \E n \in RequiredEnv : last.env[n] = Absent)
        => (last.steps = << >> /\ last.outbox = << >> /\ ~last.raised)

\* C12: with all credentials present, a failure of any step of the SMTP
\* conversation is caught and reported, and send_email returns normally
TransportFailureCaught ==
    (SendCall /\ last.failed # "none")
        => (~last.raised /\ last.log = "Failed to send email"
            /\ last.outbox = << >>)

TransportFailureCaughtWitness ==
    /\ SendCall
    /\ last.fail.step = "login"
    /\ last.fail.exc = "OSError"
    /\ last.failed = "login"
    /\ last.steps = <<"connect", "starttls", "login">>
    /\ last.log = "Failed to send email"

\* a configuration send_email cannot send with: a required value is unset or
\* empty, or SMTP_PORT is not a port number
Misconfigured(env) ==
    \/ \E n \in RequiredEnv : ~Truthy(env[n])
    \/ env["SMTP_PORT"] \notin {"587"}

\* C13: for every SMTP_* configuration in which a value is missing, empty or
\* unusable, send_email logs, sends no digest and returns
MisconfigurationRecovered ==
    (SendCall /\ Misconfigured(last.env))
        => (~last.raised /\ last.outbox = << >> /\ last.log # "")

\* a compose_email call has run
ComposeCall == last.op = "compose_email"

\* positions of the records shown by the entries of a body, in body order
RECURSIVE EntryOrder(_)
EntryOrder(body) ==
    IF body = << >> THEN << >>
    ELSE (IF Head(body).line = "title" THEN <<Head(body).of>> ELSE << >>)
         \o EntryOrder(Tail(body))

SaysNoUpdates(body) ==
    \E i \in 1..Len(body) : body[i].line = "No new updates were detected today."

\* C14: compose_email on an empty list does not fail and its body states that
\* no new updates were found; on a non-empty list the body has one entry per
\* record, in input order, and no such statement
NoNewsNotification ==
    ComposeCall =>
        /\ ~last.raised
        /\ SaysNoUpdates(last.message.body) <=> (last.items = << >>)
        /\ EntryOrder(last.message.body) = [i \in 1..Len(last.items) |-> i]

NoNewsNotificationWitness ==
    /\ ComposeCall
    /\ last.items = << >>
    /\ SaysNoUpdates(last.message.body)
    /\ EntryOrder(last.message.body) = << >>

\* ============================================================ word wrapping
\* the summary wrap of generate_plain_text_email and of
\* generate_professional_plain_text.  A word is its length; a line is the
\* sequence of the words on it, printed after the indent with single spaces
MaxWords == 3

\* lengths of the words of a summary: short words, and words around the widths
WordLens == {1, 2, 40, 76, 77, 78, 83, 84, 86}

\* line_buffer = "   "     and the 80 of `> 80`
PlainIndent == 3

PlainLimit == 80

\* line_buffer = "     "   and the 88 of `> 88`; the report's rules are 90 wide
ProfessionalIndent == 5

ProfessionalLimit == 88

ProfessionalWidth == 90

Indent(renderer) ==
    IF renderer = "generate_plain_text_email" THEN PlainIndent
    ELSE ProfessionalIndent

Limit(renderer) ==
    IF renderer = "generate_plain_text_email" THEN PlainLimit
    ELSE ProfessionalLimit

RECURSIVE Sum(_)
Sum(lens) == IF lens = << >> THEN 0 ELSE Head(lens) + Sum(Tail(lens))

\* len() of the line holding these words
LineLen(indent, line) ==
    indent + Sum(line) + (IF Len(line) > 1 THEN Len(line) - 1 ELSE 0)

RECURSIVE WrapLoop(_, _, _, _, _)
\* for word in words:
\*     if len(line_buffer) + len(word) + 1 > limit:
\*         lines.append(line_buffer); line_buffer = indent + word
\*     else: line_buffer += (" " if line_buffer != indent else "") + word
\* if line_buffer.strip(): lines.append(line_buffer)
WrapLoop(indent, limit, words, line_buffer, lines) ==
    IF words = << >>
    THEN (IF line_buffer # << >> THEN Append(lines, line_buffer) ELSE lines)
    ELSE IF LineLen(indent, line_buffer) + Head(words) + 1 > limit
    THEN WrapLoop(indent, limit, Tail(words), <<Head(words)>>,
                  Append(lines, line_buffer))
    ELSE WrapLoop(indent, limit, Tail(words), Append(line_buffer, Head(words)),
                  lines)

\* the lines the renderer appends for a summary made of these words
WrapSummary(renderer, words) ==
    WrapLoop(Indent(renderer), Limit(renderer), words, << >>, << >>)

\* a plain-text renderer wraps the summary of one record
Wrap ==
    /\ Idle
    /\ \E renderer \in {"generate_plain_text_email", "generate_professional_plain_text"},
          words \in SeqUpTo(WordLens, MaxWords) :
           /\ last' = [op |-> "wrap", renderer |-> renderer, words |-> words,
                       lines |-> WrapSummary(renderer, words)]
           /\ UNCHANGED <<schema, dbExists, db, html, browser>>

NextWrap == Wrap \/ Exit

SpecWrap == Init /\ [][NextWrap]_vars

\* the width the report promises
Width(renderer) ==
    IF renderer = "generate_plain_text_email" THEN PlainLimit
    ELSE ProfessionalWidth

\* C19: every wrapped summary line is at most 80 characters long in
\* generate_plain_text_email and at most 90 in
\* generate_professional_plain_text, whatever the lengths of the words
BoundedWidth ==
    last.op = "wrap" =>
        \A i \in 1..Len(last.lines) :
            LineLen(Indent(last.renderer), last.lines[i]) <= Width(last.renderer)

\* ================================================================ renderers
\* ------------------------------------------------------- texts and escaping
\* the characters of the texts in use, runs of ordinary characters kept whole
Text(t) ==
    CASE t = "A<B>&C" -> <<"A", "<", "B", ">", "&", "C">>
      [] t = "p&q <r>" -> <<"p", "&", "q", " ", "<", "r", ">">>
      [] t = "x<y; z" -> <<"x", "<", "y", ";", " ", "z">>
      [] t = "Banks, R&D" -> <<"Banks", ",", " ", "R", "&", "D">>
      [] t = "Ops \"A\"" -> <<"Ops", " ", "\"", "A", "\"">>
      [] t \in {Null, NoColumn, ""} -> << >>
      [] OTHER -> <<t>>

RECURSIVE Replace(_, _, _)
\* str.replace(old, new): every occurrence of the character, left to right
Replace(chars, old, new) ==
    IF chars = << >> THEN << >>
    ELSE (IF Head(chars) = old THEN new ELSE <<Head(chars)>>)
         \o Replace(Tail(chars), old, new)

\* .replace("&", "&amp;").replace("<", "&lt;").replace(">", "&gt;")
Escape(chars) ==
    Replace(Replace(Replace(chars, "&", <<"&", "amp;">>),
                    "<", <<"&", "lt;">>),
            ">", <<"&", "gt;">>)

\* the same followed by .replace('"', "&quot;")
EscapeQuoted(chars) == Replace(Escape(chars), "\"", <<"&", "quot;">>)

RECURSIVE StripLeft(_)
StripLeft(chars) ==
    IF chars # << >> /\ Head(chars) = " " THEN StripLeft(Tail(chars)) ELSE chars

RECURSIVE StripRight(_)
StripRight(chars) ==
    IF chars # << >> /\ chars[Len(chars)] = " "
    THEN StripRight(SubSeq(chars, 1, Len(chars) - 1)) ELSE chars

\* str.strip()
Strip(chars) == StripRight(StripLeft(chars))

RECURSIVE SplitLoop(_, _, _, _)
SplitLoop(chars, sep, current, parts) ==
    IF chars = << >> THEN Append(parts, current)
    ELSE IF Head(chars) = sep
    THEN SplitLoop(Tail(chars), sep, << >>, Append(parts, current))
    ELSE SplitLoop(Tail(chars), sep, Append(current, Head(chars)), parts)

\* [x.strip() for x in text.split(sep)]
SplitStrip(chars, sep) ==
    LET parts == SplitLoop(chars, sep, << >>, << >>)
    IN  [i \in 1..Len(parts) |-> Strip(parts[i])]

\* --------------------------------------------------------- stored records
\* a regulation with markup characters in its texts, and two plain ones; by
\* date and by deadline the UK record lies between the two EU records
RegA ==
    [UpdateItem("EU", "A<B>&C", "http://a", "2025-03-01", "p&q <r>",
                "2027-01-15", "High")
        EXCEPT !.significant_changes = "x<y; z",
               !.affected_sectors = "Banks, R&D"]

RegB == UpdateItem("UK", "Y", "http://b", "2025-02-01", "s", "2026-06-30", "Medium")

RegC == UpdateItem("EU", "Z", "http://c", "2025-01-01", "s", "", "Low")

Regulations == {RegA, RegB, RegC}

\* ------------------------------------------------------------ the queries
HtmlRenderers ==
    {"generate_dashboard", "generate_html_email", "generate_professional_html",
     "generate_professional_dashboard", "generate_interactive_dashboard"}

TextRenderers == {"generate_plain_text_email", "generate_professional_plain_text"}

Key(field, desc) == [field |-> field, desc |-> desc]

\* the ORDER BY clause of each renderer's SELECT
OrderBy(renderer) ==
    CASE renderer = "generate_dashboard" -> <<Key("date", TRUE)>>
      [] renderer \in {"generate_plain_text_email", "generate_html_email"} ->
            <<Key("source", FALSE), Key("date", TRUE)>>
      [] renderer \in {"generate_professional_plain_text",
                       "generate_professional_html"} ->
            <<Key("compliance_deadline", FALSE), Key("source", FALSE),
              Key("date", TRUE)>>
      [] OTHER -> <<Key("compliance_deadline", FALSE), Key("date", TRUE)>>

RECURSIVE OrderedBefore(_, _, _)
\* a must come strictly before b under these sort keys
OrderedBefore(keys, a, b) ==
    IF keys = << >> THEN FALSE
    ELSE LET k == Head(keys)
             ra == TextRank(a[k.field])
             rb == TextRank(b[k.field])
         IN  IF ra # rb THEN (IF k.desc THEN ra > rb ELSE ra < rb)
             ELSE OrderedBefore(Tail(keys), a, b)

\* the row orders the renderer's SELECT may return
SelectOrders(renderer, table) ==
    LET n == Len(table) IN
    {p \in [1..n -> 1..n] :
        /\ \A i, j \in 1..n : i # j => p[i] # p[j]
        /\ \A i, j \in 1..n :
              i < j => ~OrderedBefore(OrderBy(renderer), table[p[j]], table[p[i]])}

\* ------------------------------------------------------------- the output
RECURSIVE GroupedBySource(_, _, _, _)
\* the loop over rows with current_source: a heading when the source changes,
\* then the record's block
GroupedBySource(rows, current_source, heading, block) ==
    IF rows = << >> THEN << >>
    ELSE LET r == Head(rows) IN
         (IF r.source # current_source
            THEN <<Markup(heading, r.source, << >>)>> ELSE << >>)
         \o <<Markup(block, r.source, <<r>>)>>
         \o GroupedBySource(Tail(rows), r.source, heading, block)

\* "2026" in r[7]
Mentions2026(deadline) == deadline = "2026-06-30"

\* upcoming = [r for r in rows if r[7] and ... and "2026" in r[7]]
Urgent(rows) ==
    SelectSeq(rows, LAMBDA r : r.compliance_deadline \notin {Null, ""}
                               /\ Mentions2026(r.compliance_deadline))

DeadlineList(tag, rows) ==
    [i \in 1..Len(rows) |-> Markup(tag, rows[i].source, <<rows[i]>>)]

\* the fixed opening and closing of every output
Opening == <<Markup("opening", Null, << >>)>>

Closing == <<Markup("closing", Null, << >>)>>

\* the total the enhanced outputs print: len(rows)
Total(rows) == <<Markup("total", Null, rows)>>

\* impact_level.lower() in the card loop
RendererRaises(renderer, rows) ==
    /\ renderer \in {"generate_professional_html",
                     "generate_professional_dashboard",
                     "generate_interactive_dashboard"}
    /\ ProfessionalRaises(rows)

\* what each renderer emits for the rows its SELECT returned
Rendered(renderer, rows) ==
    CASE renderer = "generate_dashboard" ->
            Opening \o generate_dashboard(rows).page \o Closing
      [] renderer = "generate_plain_text_email" ->
            Opening \o GroupedBySource(rows, Null, "SOURCE:", "entry") \o Closing
      [] renderer = "generate_html_email" ->
            Opening \o GroupedBySource(rows, Null, "h2", "update-item") \o Closing
      [] renderer = "generate_professional_plain_text" ->
            Opening \o Total(rows) \o DeadlineList("deadline-line", Urgent(rows))
            \o GroupedBySource(rows, Null, "SOURCE:", "entry") \o Closing
      [] renderer = "generate_professional_html" ->
            Opening \o Total(rows) \o DeadlineList("deadline-item", Urgent(rows))
            \o GroupedBySource(rows, Null, "source-header", "update-card")
            \o Closing
      [] renderer = "generate_professional_dashboard" ->
            Opening \o Total(rows) \o generate_professional_dashboard(rows).page
            \o Closing
      [] renderer = "generate_interactive_dashboard" ->
            Opening \o Total(rows) \o DeadlineList("deadline-card", Upcoming(rows))
            \o GroupedBySource(rows, Null, "h3", "update-card") \o Closing

Render(renderer, rows) ==
    IF RendererRaises(renderer, rows)
    THEN [renderer |-> renderer, rows |-> rows, raised |-> TRUE, out |-> << >>]
    ELSE [renderer |-> renderer, rows |-> rows, raised |-> FALSE,
          out |-> Rendered(renderer, rows)]

\* ------------------------------------------------- texts put into the HTML
\* a place where a record's text is interpolated: the element, the field,
\* the field's characters and the characters written
Slot(place, field, raw, text) ==
    [place |-> place, field |-> field, raw |-> raw, text |-> text]

\* the title as the record's row, card or item shows it
TitleSlot(renderer, place, r) ==
    LET raw == Text(r.title) IN
    Slot(place, "title", raw,
         CASE renderer = "generate_dashboard" -> raw
           [] renderer = "generate_interactive_dashboard" -> EscapeQuoted(raw)
           [] OTHER -> Escape(raw))

SummarySlot(place, r) ==
    Slot(place, "summary", Text(r.summary), Escape(Text(r.summary)))

\* generate_professional_html lists each non-empty change, escaped; the
\* dashboards print the escaped field in one piece
ChangesSlots(renderer, place, r) ==
    IF r.significant_changes \in {Null, ""} THEN << >>
    ELSE IF renderer = "generate_professional_html"
    THEN LET changes == SelectSeq(SplitStrip(Text(r.significant_changes), ";"),
                                  LAMBDA c : c # << >>)
         IN  [i \in 1..Len(changes) |->
                 Slot(place, "significant_changes", changes[i], Escape(changes[i]))]
    ELSE <<Slot(place, "significant_changes", Text(r.significant_changes),
                Escape(Text(r.significant_changes)))>>

\* for sector in sectors: html += f'<span class="sector-tag">{sector}</span>'
SectorSlots(place, r) ==
    IF r.affected_sectors \in {Null, ""} THEN << >>
    ELSE LET sectors == SplitStrip(Text(r.affected_sectors), ",")
         IN  [i \in 1..Len(sectors) |->
                 Slot(place, "affected_sectors", sectors[i], sectors[i])]

\* the texts one piece of an HTML output interpolates
Embedded(renderer, piece) ==
    IF piece.row = << >> \/ piece.tag = "total" THEN << >>
    ELSE LET r == piece.row[1] IN
         IF piece.tag \in {"deadline-item", "deadline-card"}
         THEN <<Slot(piece.tag, "title", Text(r.title), Text(r.title))>>
         ELSE IF renderer \in {"generate_dashboard", "generate_html_email"}
         THEN <<TitleSlot(renderer, piece.tag, r), SummarySlot(piece.tag, r)>>
         ELSE <<TitleSlot(renderer, piece.tag, r), SummarySlot(piece.tag, r)>>
              \o ChangesSlots(renderer, piece.tag, r)
              \o SectorSlots(piece.tag, r)

RECURSIVE EmbeddedTexts(_, _)
EmbeddedTexts(renderer, out) ==
    IF out = << >> THEN << >>
    ELSE Embedded(renderer, Head(out)) \o EmbeddedTexts(renderer, Tail(out))

\* -------------------------------------------------------------- the scripts
Scripts ==
    {"generate_email_content", "generate_email_content_enhanced",
     "generate_interactive_dashboard"}

\* the store a script reads
ScriptStore(script) ==
    IF script = "generate_email_content" THEN "basic" ELSE "enhanced"

DbPath(store) ==
    IF store = "basic" THEN "sustainability_updates.db"
    ELSE "sustainability_updates_enhanced.db"

ScriptRenderers(script) ==
    CASE script = "generate_email_content" ->
            <<"generate_plain_text_email", "generate_html_email">>
      [] script = "generate_email_content_enhanced" ->
            <<"generate_professional_plain_text", "generate_professional_html">>
      [] script = "generate_interactive_dashboard" ->
            <<"generate_interactive_dashboard">>

\* the files a script writes
ScriptFiles(script) ==
    CASE script = "generate_email_content" ->
            {"email_content_plain.txt", "email_content_html.html"}
      [] script = "generate_email_content_enhanced" ->
            {"email_content_enhanced_plain.txt", "email_content_enhanced_html.html"}
      [] script = "generate_interactive_dashboard" ->
            {"sustainability_dashboard_interactive.html"}

\* Python's `value or fallback` on a text or None
Or(value, fallback) == IF value \in {Null, ""} THEN fallback ELSE value

\* the records json.dumps embeds in the page as `const regulations`
regulations_json(rows) ==
    [i \in 1..Len(rows) |->
        [source |-> rows[i].source,
         title |-> rows[i].title,
         link |-> rows[i].link,
         date |-> rows[i].date,
         summary |-> rows[i].summary,
         first_published |-> Or(rows[i].first_published, rows[i].date),
         last_updated |-> Or(rows[i].last_updated, rows[i].date),
         compliance_deadline |-> Or(rows[i].compliance_deadline, "To be announced"),
         significant_changes |-> Or(rows[i].significant_changes, ""),
         impact_level |-> rows[i].impact_level,
         affected_sectors |-> Or(rows[i].affected_sectors, ""),
         jurisdiction |-> rows[i].jurisdiction]]

\* the numbers on the stat cards: len(rows) and the rows whose impact_level
\* == "High", "Medium", "Low"
stat_cards(rows) ==
    [all |-> Len(rows),
     high |-> Len(SelectSeq(rows, LAMBDA r : r.impact_level = "High")),
     medium |-> Len(SelectSeq(rows, LAMBDA r : r.impact_level = "Medium")),
     low |-> Len(SelectSeq(rows, LAMBDA r : r.impact_level = "Low"))]

NoMessage == [text |-> "", path |-> ""]

\* a script that goes on to sqlite3.connect whatever os.path.exists says
MissingStoreIgnored(exists) == FALSE

\* if not os.path.exists(db_path):
MissingStore(exists) == ~exists

\* one run of a script: exists is os.path.exists(db_path), table the rows of
\* the store, orders[i] the row order the i-th renderer's SELECT returns
script_main(script, exists, table, orders) ==
    LET quiet == [exit |-> 0, raised |-> FALSE, message |-> NoMessage,
                  files |-> {}, outputs |-> << >>, created |-> FALSE]
        renderers == ScriptRenderers(script)
        outs == [i \in 1..Len(renderers) |->
                    Render(renderers[i], FetchAll(table, orders[i]))]
    IN
    IF MissingStore(exists)
    THEN [quiet EXCEPT !.exit = 1,
                       !.message = [text |-> "Database not found",
                                    path |-> DbPath(ScriptStore(script))]]
    ELSE IF ~exists
    \* sqlite3.connect creates an empty file and the SELECT finds no table
    THEN [quiet EXCEPT !.exit = 1, !.raised = TRUE, !.created = TRUE]
    ELSE IF \E i \in 1..Len(outs) : outs[i].raised
    THEN [quiet EXCEPT !.exit = 1, !.raised = TRUE]
    ELSE [quiet EXCEPT !.files = ScriptFiles(script), !.outputs = outs]

\* store_updates on a batch of regulations
StoreRegulations ==
    /\ Idle
    /\ \E items \in SeqUpTo(Regulations, MaxBatch) :
           LET r == store_updates(schema, db, items) IN
           /\ dbExists
           /\ db' = r.table
           /\ last' = [NoCall EXCEPT !.op = "store_updates", !.items = items,
                                     !.pre = db, !.trace = r.trace,
                                     !.raised = r.raised, !.ret = r.new_items]
           /\ UNCHANGED <<schema, dbExists, html, browser>>

\* the agent's dashboard regenerated from the store
RegenerateDashboard ==
    /\ Idle
    /\ LET renderer == IF schema = "basic" THEN "generate_dashboard"
                       ELSE "generate_professional_dashboard"
       IN
       \E p \in SelectOrders(renderer, db) :
           LET r == Render(renderer, FetchAll(db, p)) IN
           /\ dbExists
           /\ last' = [op |-> renderer, storeExisted |-> TRUE, created |-> FALSE,
                       exit |-> IF r.raised THEN 1 ELSE 0, raised |-> r.raised,
                       message |-> NoMessage,
                       files |-> IF r.raised THEN {} ELSE {"dashboard.html"},
                       outputs |-> IF r.raised THEN << >> ELSE <<r>>]
           /\ UNCHANGED <<schema, dbExists, db, html, browser>>

\* a script run as a process of its own
RunScript(script) ==
    /\ Idle
    /\ LET exists == dbExists /\ schema = ScriptStore(script)
           table == IF exists THEN db ELSE << >>
           renderers == ScriptRenderers(script)
       IN
       \E orders \in [1..Len(renderers) -> [1..Len(table) -> 1..Len(table)]] :
           LET r == script_main(script, exists, table, orders) IN
           /\ \A i \in 1..Len(renderers) : orders[i] \in SelectOrders(renderers[i], table)
           /\ dbExists' = (dbExists \/ (r.created /\ schema = ScriptStore(script)))
           /\ last' = [op |-> script, storeExisted |-> exists, created |-> r.created,
                       exit |-> r.exit, raised |-> r.raised, message |-> r.message,
                       files |-> r.files, outputs |-> r.outputs]
           /\ html' = IF "sustainability_dashboard_interactive.html" \in r.files
                       THEN [written |-> TRUE,
                             regulations |-> regulations_json(r.outputs[1].rows),
                             cards |-> stat_cards(r.outputs[1].rows)]
                       ELSE html
           /\ UNCHANGED <<schema, db, browser>>

GenerateEmailContent == RunScript("generate_email_content")

GenerateEmailContentEnhanced == RunScript("generate_email_content_enhanced")

GenerateInteractiveDashboard == RunScript("generate_interactive_dashboard")

NextRender ==
    \/ InitialiseDb
    \/ StoreRegulations
    \/ RegenerateDashboard
    \/ GenerateEmailContent
    \/ GenerateEmailContentEnhanced
    \/ GenerateInteractiveDashboard
    \/ Exit

SpecRender == Init /\ [][NextRender]_vars

\* ------------------------------------------------------ renderer properties
\* a call that renders the store has run
RenderCall ==
    last.op \in Scripts \cup {"generate_dashboard", "generate_professional_dashboard"}

\* the HTML outputs of the call
HtmlOutputs ==
    SelectSeq(last.outputs, LAMBDA o : o.renderer \in HtmlRenderers)

\* the field's characters with <, > and & replaced by their entities
EscapedSlot(slot) == slot.text \in {Escape(slot.raw), EscapeQuoted(slot.raw)}

\* every text of these fields that the output embeds is escaped
FieldsEscaped(o, fields) ==
    LET slots == EmbeddedTexts(o.renderer, o.out) IN
    \A k \in 1..Len(slots) : slots[k].field \in fields => EscapedSlot(slots[k])

\* C15: every HTML renderer emits a record's title, at every place it embeds
\* it (table row, card, deadline list, calendar), with <, > and & replaced by
\* their entities and never raw
TitleEscaped ==
    RenderCall =>
        \A i \in 1..Len(HtmlOutputs) : FieldsEscaped(HtmlOutputs[i], {"title"})

\* C16: summary, significant_changes and every sector name split out of
\* affected_sectors are HTML-escaped in every HTML renderer that shows them
FreeTextEscaped ==
    RenderCall =>
        \A i \in 1..Len(HtmlOutputs) :
            FieldsEscaped(HtmlOutputs[i],
                          {"summary", "significant_changes", "affected_sectors"})

\* the output tells the reader that there is nothing to show: a statement of
\* its own, or a total of zero
SaysNothingToShow(out) ==
    \E k \in 1..Len(out) :
        \/ out[k].tag = "no-updates"
        \/ out[k].tag = "total" /\ out[k].row = << >>

\* C17: on an empty store each renderer does not raise and returns a
\* non-empty output that contains a "no updates" indicator
EmptyStoreRendering ==
    (RenderCall /\ last.storeExisted /\ db = << >>) =>
        /\ ~last.raised
        /\ last.outputs # << >>
        /\ \A i \in 1..Len(last.outputs) :
              /\ last.outputs[i].out # << >>
              /\ SaysNothingToShow(last.outputs[i].out)

HeadingTags == {"h2", "h3", "SOURCE:", "source-header"}

BlockTags == {"tr", "entry", "update-item", "update-card"}

\* the renderer's order inside a group: by date, or by deadline
GroupOrder(renderer) ==
    SelectSeq(OrderBy(renderer), LAMBDA k : k.field # "source")

\* one heading per distinct source, and the records of a group in order
GroupedOutput(o) ==
    LET headings == SelectSeq(o.out, LAMBDA m : m.tag \in HeadingTags)
        blocks == SelectSeq(o.out, LAMBDA m : m.tag \in BlockTags)
    IN
    /\ \A i, j \in 1..Len(headings) :
          i # j => headings[i].source # headings[j].source
    /\ {headings[i].source : i \in 1..Len(headings)}
          = {o.rows[i].source : i \in 1..Len(o.rows)}
    /\ \A i, j \in 1..Len(blocks) :
          (i < j /\ blocks[i].source = blocks[j].source)
              => ~OrderedBefore(GroupOrder(o.renderer),
                                blocks[j].row[1], blocks[i].row[1])

\* C18: each renderer's output has exactly one group heading per distinct
\* source, the records of that source contiguous beneath it and sorted by
\* date (or deadline); a source's heading is never emitted twice
GroupedBySourceOnce ==
    RenderCall =>
        \A i \in 1..Len(last.outputs) : GroupedOutput(last.outputs[i])

\* C20: when the store file does not exist, each script prints a message
\* naming the path and exits with status 1, without creating a store file or
\* writing any output artifact
StoreUnavailableFatal ==
    (last.op \in Scripts /\ ~last.storeExisted) =>
        /\ last.exit = 1
        /\ last.message = [text |-> "Database not found",
                           path |-> DbPath(ScriptStore(last.op))]
        /\ last.files = {}
        /\ last.outputs = << >>
        /\ ~last.created
        /\ schema = ScriptStore(last.op) => ~dbExists

StoreUnavailableFatalWitness ==
    /\ last.op = "generate_email_content_enhanced"
    /\ schema = "enhanced"
    /\ ~last.storeExisted
    /\ ~dbExists
    /\ last.exit = 1
    /\ last.files = {}

\* ============================================== store and gather, continued
\* C21: initialise_db on a path that already holds a store returns a
\* connection without error and leaves every stored record unchanged, so any
\* number of calls between runs is as good as one
InitialiseDbIdempotent ==
    last.op = "initialise_db"
        => /\ dbExists
           /\ ~last.raised
           /\ db = last.pre

InitialiseDbIdempotentWitness ==
    /\ last.op = "initialise_db"
    /\ Len(last.pre) >= 2
    /\ db = last.pre

RECURSIVE Offset(_, _)
\* how many records the producers registered before position k contributed
Offset(results, k) ==
    IF k = 1 THEN 0
    ELSE Offset(results, k - 1) + Len(Contribution(results, k - 1))

\* C25: gather_updates returns the records in the registration order of the
\* sources and, within a source, in the order its producer returned them: the
\* records of a producer that did not fail stand, whole and in order, right
\* after those of the producers registered before it, and nothing else is
\* returned
GatherOrder ==
    last.op = "gather_updates" =>
        /\ \A k \in 1..NumSources :
              ~last.results[k].raised =>
                  SubSeq(last.ret, Offset(last.results, k) + 1,
                         Offset(last.results, k) + Len(last.results[k].items))
                      = last.results[k].items
        /\ Len(last.ret) = Offset(last.results, NumSources + 1)

GatherOrderWitness ==
    /\ last.op = "gather_updates"
    /\ \E a, b \in 1..NumSources :
          /\ a < b
          /\ ~last.results[a].raised /\ ~last.results[b].raised
          /\ Len(last.results[a].items) = 2
          /\ last.results[b].items # << >>
          /\ last.results[a].items[1] # last.results[b].items[1]
          /\ last.ret[1] = last.results[a].items[1]
          /\ last.ret[2] = last.results[a].items[2]
    /\ Len(last.ret) >= 3

\* ------------------------------------------------- a batch that is aborted
\* Besides a value it cannot bind, cur.execute can fail for reasons outside
\* the batch (sqlite3.OperationalError: database is locked, disk I/O error);
\* store_updates catches IntegrityError only, so either ends the call.
AbortItems == {ItemA, ItemB, ItemC, ItemBadType}

\* the store when conn.commit() is called once, after the loop: an exception
\* in the loop leaves nothing behind
DurableAtEnd(before, acc) == IF acc.raised THEN before ELSE acc.table

\* conn.commit() follows every successful INSERT: what the loop inserted
\* before an exception is in the file
Durable(before, acc) == acc.table

RECURSIVE StoreLoopInterrupted(_, _, _, _)
\* StoreLoop in which the failAt-th execute raises OperationalError
\* (failAt = 0: none does)
StoreLoopInterrupted(sch, acc, items, failAt) ==
    IF items = << >> \/ acc.raised THEN acc
    ELSE IF failAt = 1
    THEN [acc EXCEPT !.trace = Append(@, "OperationalError"), !.raised = TRUE]
    ELSE StoreLoopInterrupted(sch, StoreOne(sch, acc, Head(items)), Tail(items),
                              IF failAt = 0 THEN 0 ELSE failAt - 1)

\* store_updates(conn, items) with that failure: the table in the file
\* afterwards, new_items, and what each INSERT did
store_updates_interrupted(sch, table, items, failAt) ==
    LET acc == StoreLoopInterrupted(sch, [table |-> table, new_items |-> << >>,
                                          trace |-> << >>, raised |-> FALSE],
                                    items, failAt)
    IN  [acc EXCEPT !.table = Durable(table, acc)]

\* the call before this one, as far as a re-run refers to it
NoAborted == [pre |-> << >>, trace |-> << >>]

\* store_updates on a batch, the environment failing one execute or none
StoreUpdatesInterrupted ==
    /\ Idle
    /\ dbExists
    /\ \E items \in SeqUpTo(AbortItems, MaxBatch) :
          \E failAt \in 0..Len(items) :
              LET r == store_updates_interrupted(schema, db, items, failAt) IN
              /\ db' = r.table
              /\ last' = [op |-> "store_updates", items |-> items, pre |-> db,
                          trace |-> r.trace, raised |-> r.raised,
                          ret |-> IF r.raised THEN << >> ELSE r.new_items,
                          aborted |-> NoAborted]
              /\ UNCHANGED <<schema, dbExists, html, browser>>

\* the aborted batch is handed to store_updates again, by a new run
RerunStoreUpdates ==
    /\ last.op = "store_updates"
    /\ last.raised
    /\ \E failAt \in 0..Len(last.items) :
          LET r == store_updates_interrupted(schema, db, last.items, failAt) IN
          /\ db' = r.table
          /\ last' = [op |-> "store_updates again", items |-> last.items,
                      pre |-> db, trace |-> r.trace, raised |-> r.raised,
                      ret |-> IF r.raised THEN << >> ELSE r.new_items,
                      aborted |-> [pre |-> last.pre, trace |-> last.trace]]
          /\ UNCHANGED <<schema, dbExists, html, browser>>

NextAbort == InitialiseDb \/ StoreUpdatesInterrupted \/ RerunStoreUpdates \/ Exit

SpecAbort == Init /\ [][NextAbort]_vars

\* the rows of the new records among the first n of a batch
RowsOfFresh(before, items, n) ==
    LET P == FreshPositions(before, items) \cap 1..n
    IN  [k \in 1..Cardinality(P) |-> InsertedRow(schema, items[KthOf(P, k)])]

\* C30: when a batch is aborted by an exception at record k, every new record
\* before k is stored; store_updates called again with the same batch returns
\* only records that the aborted call had not stored
CommitPerInsert ==
    /\ (last.op \in {"store_updates", "store_updates again"} /\ last.raised)
          => db = last.pre \o RowsOfFresh(last.pre, last.items, Len(last.trace) - 1)
    /\ (last.op = "store_updates again" /\ ~last.raised)
          => /\ \A i \in 1..Len(last.ret) :
                   NaturalKey(last.ret[i]) \notin KeysOf(last.pre)
             /\ last.pre = last.aborted.pre
                    \o RowsOfFresh(last.aborted.pre, last.items,
                                   Len(last.aborted.trace) - 1)
             /\ last.ret = SubsequenceAt(last.items,
                                         FreshPositions(last.pre, last.items))

CommitPerInsertWitness ==
    /\ last.op = "store_updates again"
    /\ ~last.raised
    /\ last.aborted.trace = <<"inserted", "inserted", "OperationalError">>
    /\ Len(last.pre) = Len(last.aborted.pre) + 2
    /\ last.trace = <<"IntegrityError: UNIQUE", "IntegrityError: UNIQUE", "inserted">>
    /\ last.ret = <<last.items[3]>>

\* ------------------------------------------------ word wrapping, continued
RECURSIVE WordsOf(_)
\* the words of the wrapped lines, read in order
WordsOf(lines) ==
    IF lines = << >> THEN << >> ELSE Head(lines) \o WordsOf(Tail(lines))

\* C29: the word-wrap loses nothing: the words of the emitted lines, read in
\* order, are exactly summary.split(), and no emitted summary line consists
\* of whitespace only
WrapLosesNothing ==
    last.op = "wrap" =>
        /\ WordsOf(last.lines) = last.words
        /\ \A i \in 1..Len(last.lines) : last.lines[i] # << >>

\* ------------------------------------- the basic consumers on either store
\* SELECT * FROM updates: every column the table has
SelectStar(row) == row

\* SELECT source, title, link, date, summary FROM updates
SelectBasic(row) == [f \in RequiredFields |-> row[f]]

\* the rows generate_plain_text_email / generate_html_email fetch from a
\* table when the SELECT returns them in the order p
FetchBasic(table, p) == [i \in 1..Len(table) |-> SelectBasic(table[p[i]])]

\* the basic-schema store into which the same records were inserted in the
\* same order
BasicStoreOf(table) ==
    [i \in 1..Len(table) |->
        [f \in DOMAIN table[i] |->
            IF f \in ExtendedFields THEN NoColumn ELSE table[i][f]]]

\* the outputs a basic renderer can produce on a table
BasicOutputs(renderer, table) ==
    {Rendered(renderer, FetchBasic(table, p)) : p \in SelectOrders(renderer, table)}

\* generate_plain_text_email(conn) or generate_html_email(conn) on a
\* connection to the store, whatever its schema
RenderBasicView ==
    /\ Idle
    /\ dbExists
    /\ \E renderer \in {"generate_plain_text_email", "generate_html_email"} :
          \E p \in SelectOrders(renderer, db) :
              /\ last' = [op |-> "basic view", renderer |-> renderer,
                          raised |-> FALSE,
                          out |-> Rendered(renderer, FetchBasic(db, p))]
              /\ UNCHANGED <<schema, dbExists, db, html, browser>>

NextView ==
    \/ InitialiseDb
    \/ StoreRegulations
    \/ RenderBasicView
    \/ Exit

SpecView == Init /\ [][NextView]_vars

\* C22: generate_plain_text_email and generate_html_email, run on an
\* extended-schema store, produce the same output as on a basic-schema store
\* into which the same records were inserted in the same order
BasicViewPreserved ==
    last.op = "basic view" =>
        /\ ~last.raised
        /\ last.out \in BasicOutputs(last.renderer, BasicStoreOf(db))
        /\ BasicOutputs(last.renderer, db)
              = BasicOutputs(last.renderer, BasicStoreOf(db))

BasicViewPreservedWitness ==
    /\ last.op = "basic view"
    /\ schema = "enhanced"
    /\ Len(db) = 3
    /\ \E i \in 1..Len(db) : db[i].affected_sectors = "Banks, R&D"
    /\ \E k \in 1..Len(last.out) :
          /\ last.out[k].tag \in {"entry", "update-item"}
          /\ last.out[k].row[1].title = "A<B>&C"

\* ------------------------------------------- records without extended data
\* a record whose extended fields are empty texts, one whose extended fields
\* are None, and a full one
RegEmpty == UpdateItem("EU", "E", "http://e", "2025-01-01", "s", "", "")

RegNull ==
    [UpdateItem("UK", "N", "http://n", "2025-02-01", "s", Null, Null)
        EXCEPT !.first_published = Null, !.last_updated = Null,
               !.significant_changes = Null, !.affected_sectors = Null,
               !.jurisdiction = Null]

SparseRegulations == {RegA, RegEmpty, RegNull}

\* the key dates a card or entry prints for a record
KeyDates(r) ==
    [first_published |-> Or(r.first_published, r.date),
     last_updated |-> Or(r.last_updated, r.date),
     compliance_deadline |-> Or(r.compliance_deadline, "To be announced")]

\* store_updates on a batch of such records
StoreSparse ==
    /\ Idle
    /\ dbExists
    /\ \E items \in SeqUpTo(SparseRegulations, MaxBatch) :
          LET r == store_updates(schema, db, items) IN
          /\ db' = r.table
          /\ last' = [NoCall EXCEPT !.op = "store_updates", !.items = items,
                                    !.pre = db, !.trace = r.trace,
                                    !.raised = r.raised, !.ret = r.new_items]
          /\ UNCHANGED <<schema, dbExists, html, browser>>

NextSparse ==
    \/ InitialiseDb
    \/ StoreSparse
    \/ RegenerateDashboard
    \/ GenerateEmailContentEnhanced
    \/ GenerateInteractiveDashboard
    \/ Exit

SpecSparse == Init /\ [][NextSparse]_vars

\* every extended field of the row is empty or NULL
NoExtendedData(row) == \A f \in ExtendedFields : row[f] \in {Null, ""}

\* C23: for a stored record whose extended fields are empty or NULL, every
\* enhanced renderer completes without raising, shows 'To be announced' for
\* the compliance deadline and the record's date for first_published and
\* last_updated
EmptyExtendedFieldsRender ==
    (RenderCall /\ schema = "enhanced" /\ last.storeExisted
        /\ \E i \in 1..Len(db) : NoExtendedData(db[i]))
        => /\ ~last.raised
           /\ last.outputs # << >>
           /\ \A i \in 1..Len(last.outputs) :
                 \A k \in 1..Len(last.outputs[i].out) :
                     LET piece == last.outputs[i].out[k] IN
                     (piece.tag \in BlockTags /\ NoExtendedData(piece.row[1]))
                         => KeyDates(piece.row[1])
                               = [first_published |-> piece.row[1].date,
                                  last_updated |-> piece.row[1].date,
                                  compliance_deadline |-> "To be announced"]

\* ------------------------------------------------- opening and closing tags
\* how many tags of one kind a part of the output opens and closes
Tally(opened, closed) == [opened |-> opened, closed |-> closed]

Plus(a, b) == Tally(a.opened + b.opened, a.closed + b.closed)

\* the <div> and </div> tags of a record's card: the card itself, the changes
\* box `if significant_changes` and the sectors box `if affected_sectors`
CardDivs(renderer, r) ==
    Plus(IF renderer = "generate_professional_html" THEN Tally(9, 9)
         ELSE Tally(10, 10),
         Plus(IF r.significant_changes \in {Null, ""} THEN Tally(0, 0)
              ELSE IF renderer = "generate_professional_html" THEN Tally(2, 2)
              ELSE Tally(3, 3),
              IF r.affected_sectors \in {Null, ""} THEN Tally(0, 0)
              ELSE Tally(3, 3)))

\* the tags of one kind, "div" or "table", each piece of an output holds
TagsOf(kind, renderer, piece) ==
    IF kind = "table"
    THEN CASE piece.tag = "table" -> Tally(1, 0)
           [] piece.tag = "/table" -> Tally(0, 1)
           [] OTHER -> Tally(0, 0)
    ELSE
    CASE piece.tag = "opening" ->
            (CASE renderer = "generate_html_email" -> Tally(1, 0)
               [] renderer = "generate_professional_html" -> Tally(18, 16)
               [] renderer = "generate_professional_dashboard" -> Tally(22, 19)
               [] renderer = "generate_interactive_dashboard" -> Tally(41, 38)
               [] OTHER -> Tally(0, 0))
      [] piece.tag = "closing" ->
            (CASE renderer = "generate_html_email" -> Tally(1, 2)
               [] renderer = "generate_professional_html" -> Tally(4, 7)
               [] renderer = "generate_professional_dashboard" -> Tally(4, 7)
               [] renderer = "generate_interactive_dashboard" -> Tally(19, 22)
               [] OTHER -> Tally(0, 0))
      [] piece.tag = "update-item" -> Tally(4, 4)
      [] piece.tag = "deadline-item" -> Tally(1, 1)
      [] piece.tag = "deadline-card" -> Tally(3, 3)
      \* <div class="source-header">...</div> <div class="source-section">
      [] piece.tag = "source-header" -> Tally(2, 1)
      [] piece.tag = "update-card" -> CardDivs(renderer, piece.row[1])
      [] OTHER -> Tally(0, 0)

\* the <div> tags around the pieces: the section around the deadlines
\* `if upcoming`, and a stat card for each key of source_counts
SectionDivs(renderer, rows) ==
    Plus(IF \/ renderer = "generate_professional_html" /\ Urgent(rows) # << >>
            \/ /\ renderer \in {"generate_professional_dashboard",
                                 "generate_interactive_dashboard"}
               /\ Upcoming(rows) # << >>
         THEN Tally(2, 2) ELSE Tally(0, 0),
         IF renderer \in {"generate_professional_dashboard",
                          "generate_interactive_dashboard"}
         THEN LET n == Cardinality({rows[i].source : i \in 1..Len(rows)})
              IN Tally(3 * n, 3 * n)
         ELSE Tally(0, 0))

RECURSIVE TallyOf(_, _, _)
\* the tags of one kind in a sequence of pieces
TallyOf(kind, renderer, out) ==
    IF out = << >> THEN Tally(0, 0)
    ELSE Plus(TagsOf(kind, renderer, Head(out)),
              TallyOf(kind, renderer, Tail(out)))

\* the opening and closing tags of one kind in a renderer's output
Elements(kind, o) ==
    Plus(TallyOf(kind, o.renderer, o.out),
         IF kind = "div" THEN SectionDivs(o.renderer, o.rows) ELSE Tally(0, 0))

\* C26: in each HTML renderer's output, for every stored record set, the
\* numbers of opening and closing <div> tags are equal, and so are the
\* numbers of opening and closing <table> tags
WellFormedMarkup ==
    RenderCall =>
        \A i \in 1..Len(HtmlOutputs) :
            \A kind \in {"div", "table"} :
                Elements(kind, HtmlOutputs[i]).opened
                    = Elements(kind, HtmlOutputs[i]).closed

\* ======================================================= the page's script
\* the records the tracked store may hold: one with the level as the
\* producers write it, one with the level in lower case
TrackedRegulations == {RegA, [RegB EXCEPT !.impact_level = "high"]}

\* String.prototype.toLowerCase on the levels in use
toLowerCase(t) ==
    CASE t = "High" -> "high"
      [] t = "Medium" -> "medium"
      [] t = "Low" -> "low"
      [] OTHER -> t

\* regulations.map((reg, idx) => ({id: idx, ...})); idx counts from 0
defaultData(regulations) ==
    [i \in 1..Len(regulations) |->
        [id |-> i - 1,
         regulation |-> regulations[i].title,
         source |-> regulations[i].source,
         deadline |-> regulations[i].compliance_deadline,
         status |-> "not-started",
         team |-> "",
         notes |-> ""]]

\* loadComplianceData(): the saved item if there is one (its fields are
\* texts and numbers, which JSON.stringify and JSON.parse give back as they
\* were), else the default data
loadComplianceData(b) ==
    IF b.complianceData.saved THEN b.complianceData.data
    ELSE defaultData(b.regulations)

\* saveComplianceData(data)
saveComplianceData(data) == [saved |-> TRUE, data |-> data]

RECURSIVE AttributeValue(_)
\* what the HTML parser reads from value="${item.team}": the characters up
\* to the first double quote
AttributeValue(chars) ==
    IF chars = << >> \/ Head(chars) = "\"" THEN << >>
    ELSE <<Head(chars)>> \o AttributeValue(Tail(chars))

\* renderComplianceGrid(data): what the elements built from the innerHTML
\* template show of each item: the selected status, the value of the owner
\* input and the characters of the notes (the notes in use hold no markup)
renderComplianceGrid(data) ==
    [i \in 1..Len(data) |->
        [regulation |-> data[i].regulation,
         source |-> data[i].source,
         deadline |-> data[i].deadline,
         status |-> data[i].status,
         team |-> AttributeValue(Text(data[i].team)),
         notes |-> Text(data[i].notes)]]

\* a handler called with an index of the grid: data[idx] is undefined, and
\* the assignment throws, when the loaded data is shorter than the grid
Edit(handler, idx, data, grid) ==
    IF idx > Len(loadComplianceData(browser))
    THEN browser' = [browser EXCEPT !.handler = handler, !.threw = TRUE]
    ELSE browser' = [browser EXCEPT !.handler = handler, !.threw = FALSE,
                                    !.complianceData = saveComplianceData(data),
                                    !.grid = grid]

\* the page is opened or reloaded: DOMContentLoaded runs initComplianceTracker
LoadPage ==
    /\ Idle
    /\ html.written
    /\ browser' = LET b == [browser EXCEPT !.regulations = html.regulations,
                                            !.cards = html.cards] IN
                  [b EXCEPT !.open = TRUE,
                            !.grid = renderComplianceGrid(loadComplianceData(b)),
                            !.modal = << >>,
                            !.filter = "none",
                            !.handler = "initComplianceTracker",
                            !.threw = FALSE]
    /\ UNCHANGED <<schema, dbExists, db, last, html>>

\* updateStatus(idx, status) with an option of the select: saves and
\* renders the grid again
UpdateStatus ==
    /\ Idle
    /\ browser.open
    /\ \E idx \in 1..Len(browser.grid) : \E status \in {"not-started", "in-progress", "completed"} :
          LET data == [loadComplianceData(browser) EXCEPT ![idx].status = status]
          IN Edit("updateStatus", idx, data, renderComplianceGrid(data))
    /\ UNCHANGED <<schema, dbExists, db, last, html>>

\* toggleComplete(idx)
ToggleComplete ==
    /\ Idle
    /\ browser.open
    /\ \E idx \in 1..Len(browser.grid) :
          LET old == loadComplianceData(browser)
              data == [old EXCEPT ![idx].status =
                          IF old[idx].status = "completed" THEN "in-progress"
                          ELSE "completed"]
          IN Edit("toggleComplete", idx, data, renderComplianceGrid(data))
    /\ UNCHANGED <<schema, dbExists, db, last, html>>

\* updateTeam(idx, team) with a text typed into the owner input: saves
\* without rendering; the input of the grid holds what was typed
UpdateTeam ==
    /\ Idle
    /\ browser.open
    /\ \E idx \in 1..Len(browser.grid) : \E team \in {"", "Legal", "Ops \"A\""} :
          Edit("updateTeam", idx,
               [loadComplianceData(browser) EXCEPT ![idx].team = team],
               [browser.grid EXCEPT ![idx].team = Text(team)])
    /\ UNCHANGED <<schema, dbExists, db, last, html>>

\* updateNotes(idx, notes) with a text typed into the notes
UpdateNotes ==
    /\ Idle
    /\ browser.open
    /\ \E idx \in 1..Len(browser.grid) : \E notes \in {"", "draft"} :
          Edit("updateNotes", idx,
               [loadComplianceData(browser) EXCEPT ![idx].notes = notes],
               [browser.grid EXCEPT ![idx].notes = Text(notes)])
    /\ UNCHANGED <<schema, dbExists, db, last, html>>

\* resetCompliance(): after confirm(), removes the item and initialises again
ResetCompliance ==
    /\ Idle
    /\ browser.open
    /\ \E confirmed \in BOOLEAN :
          browser' =
              IF confirmed
              THEN LET b == [browser EXCEPT !.complianceData = NoPage.complianceData] IN
                   [b EXCEPT !.grid = renderComplianceGrid(loadComplianceData(b)),
                             !.handler = "resetCompliance", !.threw = FALSE]
              ELSE [browser EXCEPT !.handler = "confirm cancelled",
                                   !.threw = FALSE]
    /\ UNCHANGED <<schema, dbExists, db, last, html>>

\* a stat card is clicked: showFilteredRegulations(filter, value) lists the
\* regulations in the modal
ShowFilteredRegulations ==
    /\ Idle
    /\ browser.open
    /\ \E filter \in {"all", "high", "medium", "low", "source"} :
       \E value \in IF filter = "source"
                     THEN {browser.regulations[i].source :
                              i \in 1..Len(browser.regulations)}
                     ELSE {Null} :
          browser' = [browser EXCEPT
                         !.modal =
                            CASE filter = "all" -> browser.regulations
                              [] filter = "source" ->
                                    SelectSeq(browser.regulations,
                                              LAMBDA r : r.source = value)
                              [] OTHER ->
                                    SelectSeq(browser.regulations,
                                              LAMBDA r : toLowerCase(r.impact_level)
                                                            = filter),
                         !.filter = filter,
                         !.handler = "showFilteredRegulations",
                         !.threw = FALSE]
    /\ UNCHANGED <<schema, dbExists, db, last, html>>

\* longest batch stored between two regenerations of the page
TrackedBatch == 1

\* store_updates on a batch of tracked regulations
StoreTracked ==
    /\ Idle
    /\ dbExists
    /\ \E items \in SeqUpTo(TrackedRegulations, TrackedBatch) :
          LET r == store_updates(schema, db, items) IN
          /\ db' = r.table
          /\ last' = [NoCall EXCEPT !.op = "store_updates", !.items = items,
                                    !.pre = db, !.trace = r.trace,
                                    !.raised = r.raised, !.ret = r.new_items]
          /\ UNCHANGED <<schema, dbExists, html, browser>>

NextTracker ==
    \/ InitialiseDb
    \/ StoreTracked
    \/ GenerateInteractiveDashboard
    \/ Exit
    \/ LoadPage
    \/ UpdateStatus
    \/ ToggleComplete
    \/ UpdateTeam
    \/ UpdateNotes
    \/ ResetCompliance
    \/ ShowFilteredRegulations

SpecTracker == Init /\ [][NextTracker]_vars

\* ------------------------------------------------------ tracker properties
\* what the grid shows of an item's progress
Progress(item) == [status |-> item.status, team |-> item.team, notes |-> item.notes]

NoProgress == [status |-> "not-started", team |-> << >>, notes |-> << >>]

\* C24: after any sequence of updateStatus, updateTeam, updateNotes and
\* toggleComplete, reloading the page shows for every item the status, owner
\* and notes last set for it; the saved data is dropped only by a confirmed
\* resetCompliance, which returns all items to 'not-started' with empty owner
\* and notes
TrackerSurvivesReload ==
    [][/\ (browser.open /\ LoadPage) =>
             \A i \in 1..Len(browser.grid) :
                 /\ Progress(browser.grid[i]) # NoProgress
                        => i <= Len(browser'.grid)
                 /\ i <= Len(browser'.grid)
                        => Progress(browser'.grid[i]) = Progress(browser.grid[i])
       /\ (browser.complianceData.saved /\ ~browser'.complianceData.saved)
             => browser'.handler = "resetCompliance"
       /\ browser'.handler = "resetCompliance"
             => \A i \in 1..Len(browser'.grid) :
                    Progress(browser'.grid[i]) = NoProgress
      ]_vars

\* C27: for each level, the number printed on the level's stat card equals
\* the number of regulations listed when the card is clicked, also when a
\* producer wrote the level in another letter case
CardCountsAgree ==
    (browser.open /\ browser.filter \in {"high", "medium", "low"})
        => Len(browser.modal) = browser.cards[browser.filter]

\* C28: for any interleaving of tracker edits, store inserts and dashboard
\* regenerations, the tracker shown has exactly one item per regulation of
\* the page, and the item at index i describes the regulation at index i
TrackerMatchesPage ==
    browser.open =>
        /\ Len(browser.grid) = Len(browser.regulations)
        /\ \A i \in 1..Len(browser.grid) :
              /\ browser.grid[i].regulation = browser.regulations[i].title
              /\ browser.grid[i].source = browser.regulations[i].source
              /\ browser.grid[i].deadline
                    = browser.regulations[i].compliance_deadline

====
